---------------------------- MODULE Spec2Model ----------------------------
(***************************************************************************)
(* A model of Script.py (canada_news_notifier): the text helpers           *)
(* clean_text and summarize, the classifier pick_topic, entry_time,        *)
(* dedupe, the aggregation cycle collect_news and the Tk event loop that   *)
(* calls it from main and from the Refresh button.                         *)
(*                                                                         *)
(* Python strings are TLA+ strings; TLC evaluates Len, \o and SubSeq on    *)
(* them.  Python offsets are 0-based, SubSeq is 1-based: every operator    *)
(* that returns a Python offset says so.                                   *)
(***************************************************************************)
EXTENDS Integers, Sequences, FiniteSets, TLC

VARIABLES
    arg,        \* the arguments of the helper call under study
    out,        \* the values that call has returned so far
    pc,         \* collect_news: "fetch" | "entries" | "done"
    feed_i,     \* collect_news: index in FEEDS of the url of the for loop
    source_title, \* collect_news: the local source_title of the current url
    n_entry,    \* collect_news: entries of fp.entries[:20] iterated so far
    all_items,  \* collect_news: the local list all_items
    returned,   \* collect_news: the value returned (themed[:MAX_ITEMS])
    outcome,    \* history: how each url's try block ended
    fetched,    \* history: all_items as the for loop over FEEDS left it
    nfetched,   \* history: entries the feeds delivered so far in this cycle
    ui_pc,      \* main thread: "main" | "mainloop" | "closed"
    stack,      \* main thread: the collect_news frames on its call stack
    events,     \* Tk event queue: button clicks not yet dispatched
    shown,      \* the item blocks packed in the window's inner frame
    ncycles     \* number of collect_news calls started

vars == <<arg, out, pc, feed_i, source_title, n_entry, all_items, returned,
          outcome, fetched, nfetched, ui_pc, stack, events, shown, ncycles>>

helperVars == <<arg, out>>
cycleVars  == <<pc, feed_i, source_title, n_entry, all_items, returned,
                outcome, fetched, nfetched>>
uiVars     == <<ui_pc, stack, events, shown, ncycles>>

---------------------------------------------------------------------------
(* Bounds of the model                                                     *)

MaxTokens == 4      \* clean_text inputs: at most this many tokens
MaxLen == 7         \* summarize inputs: at most this many tokens
MaxLimit == 6       \* summarize limits: 0..MaxLimit
MaxFetched == 3     \* entries the feeds deliver in one cycle, all feeds together
MaxEvents == 2      \* clicks waiting in the Tk event queue
MaxCycles == 3      \* collect_news calls in one run of the program

(* Program constants                                                       *)

MAX_ITEMS == 3
SUMMARY_CHARS == 220
EntryCap == 20      \* fp.entries[:20]

---------------------------------------------------------------------------
(* Strings                                                                 *)

\* s[i-1:i]: the character at 1-based index i, "" outside the string
Char(s, i) == IF 1 <= i /\ i <= Len(s) THEN SubSeq(s, i, i) ELSE ""

\* s[n:] for n >= 0
Drop(s, n) == IF n >= Len(s) THEN "" ELSE SubSeq(s, n + 1, Len(s))

\* s[:n] for n >= 0
Take(s, n) == IF n <= 0 THEN "" ELSE SubSeq(s, 1, IF n < Len(s) THEN n ELSE Len(s))

\* Python's `needle in hay`
Contains(hay, needle) ==
    \E i \in 1..(Len(hay) - Len(needle) + 1) :
        SubSeq(hay, i, i + Len(needle) - 1) = needle

\* Python's hay.find(c) for a one-character c, as a 1-based index from
\* position `from` on; 0 when there is none
RECURSIVE FindFrom(_, _, _)
FindFrom(s, c, from) ==
    IF from > Len(s) THEN 0
    ELSE IF Char(s, from) = c THEN from
    ELSE FindFrom(s, c, from + 1)

\* Python's s.rfind(c): the 0-based offset of the last c, -1 when none
RECURSIVE RFindFrom(_, _, _)
RFindFrom(s, c, i) ==
    IF i = 0 THEN -1
    ELSE IF Char(s, i) = c THEN i - 1
    ELSE RFindFrom(s, c, i - 1)

rfind(s, c) == RFindFrom(s, c, Len(s))

\* \s of the regular expressions and of str.strip(): the model's strings
\* hold one whitespace character, the blank
IsSpace(c) == c = " "

RECURSIVE lstrip(_)
lstrip(s) ==
    IF s = "" THEN ""
    ELSE IF IsSpace(Char(s, 1)) THEN lstrip(Drop(s, 1))
    ELSE s

RECURSIVE rstrip(_)
rstrip(s) ==
    IF s = "" THEN ""
    ELSE IF IsSpace(Char(s, Len(s))) THEN rstrip(Take(s, Len(s) - 1))
    ELSE s

strip(s) == lstrip(rstrip(s))

LowerMap ==
    [c \in {"A", "B", "C", "D", "E", "F", "G", "H", "I", "J", "K", "L", "M",
            "N", "O", "P", "Q", "R", "S", "T", "U", "V", "W", "X", "Y", "Z"} |->
        CASE c = "A" -> "a" [] c = "B" -> "b" [] c = "C" -> "c" [] c = "D" -> "d"
          [] c = "E" -> "e" [] c = "F" -> "f" [] c = "G" -> "g" [] c = "H" -> "h"
          [] c = "I" -> "i" [] c = "J" -> "j" [] c = "K" -> "k" [] c = "L" -> "l"
          [] c = "M" -> "m" [] c = "N" -> "n" [] c = "O" -> "o" [] c = "P" -> "p"
          [] c = "Q" -> "q" [] c = "R" -> "r" [] c = "S" -> "s" [] c = "T" -> "t"
          [] c = "U" -> "u" [] c = "V" -> "v" [] c = "W" -> "w" [] c = "X" -> "x"
          [] c = "Y" -> "y" [] c = "Z" -> "z"]

\* str.lower(), character by character; the string is halved at each step
RECURSIVE lower(_)
lower(s) ==
    IF Len(s) <= 1
    THEN (IF s \in DOMAIN LowerMap THEN LowerMap[s] ELSE s)
    ELSE lower(Take(s, Len(s) \div 2)) \o lower(Drop(s, Len(s) \div 2))

\* all concatenations of at most n members of the set tokens
RECURSIVE Concats(_, _)
Concats(tokens, n) ==
    IF n = 0 THEN {""}
    ELSE LET shorter == Concats(tokens, n - 1)
         IN  shorter \cup {s \o t : s \in shorter, t \in tokens}

---------------------------------------------------------------------------
(* clean_text                                                              *)

\* html.entities.html5, the entries a string of the model can spell: the
\* model's strings hold no "#" and no letters but those of amp, lt, gt and b
Html5 ==
    [n \in {"amp", "amp;", "lt", "lt;", "gt", "gt;"} |->
        CASE n \in {"amp", "amp;"} -> "&"
          [] n \in {"lt", "lt;"}   -> "<"
          [] n \in {"gt", "gt;"}   -> ">"]

\* [^\t\n\f <&#;] of html.unescape's pattern
IsNameChar(c) == c \notin {" ", "<", "&", "#", ";"}

\* the length of the run [^\t\n\f <&#;]{1,32} that starts at s[i]
RECURSIVE NameRun(_, _, _)
NameRun(s, i, n) ==
    IF n = 32 \/ i + n > Len(s) \/ ~IsNameChar(Char(s, i + n)) THEN n
    ELSE NameRun(s, i, n + 1)

\* html._replace_charref: the longest prefix s[:x], x from len(s)-1 down
\* to 2, that names an entity; 0 when none does
RECURSIVE EntityPrefix(_, _)
EntityPrefix(name, x) ==
    IF x < 2 THEN 0
    ELSE IF Take(name, x) \in DOMAIN Html5 THEN x
    ELSE EntityPrefix(name, x - 1)

replace_charref(name) ==
    IF name \in DOMAIN Html5 THEN Html5[name]
    ELSE LET x == EntityPrefix(name, Len(name) - 1)
         IN  IF x > 0 THEN Html5[Take(name, x)] \o Drop(name, x)
             ELSE "&" \o name

\* html.unescape: one left-to-right pass of re.sub over the references
RECURSIVE unescape(_)
unescape(s) ==
    IF s = "" THEN ""
    ELSE IF Char(s, 1) # "&" THEN Char(s, 1) \o unescape(Drop(s, 1))
    ELSE LET run  == NameRun(s, 2, 0)
             semi == IF run > 0 /\ Char(s, 2 + run) = ";" THEN 1 ELSE 0
         IN  IF run = 0 THEN "&" \o unescape(Drop(s, 1))
             ELSE replace_charref(SubSeq(s, 2, 1 + run + semi))
                      \o unescape(Drop(s, 1 + run + semi))

\* re.sub(r"<[^>]+>", "", t)
RECURSIVE strip_tags(_)
strip_tags(s) ==
    IF s = "" THEN ""
    ELSE LET close == FindFrom(s, ">", 2)
         IN  IF Char(s, 1) = "<" /\ close > 2
             THEN strip_tags(Drop(s, close))
             ELSE Char(s, 1) \o strip_tags(Drop(s, 1))

\* re.sub(r"\s+", " ", t)
RECURSIVE collapse_ws(_)
collapse_ws(s) ==
    IF s = "" THEN ""
    ELSE IF IsSpace(Char(s, 1)) THEN " " \o collapse_ws(lstrip(s))
    ELSE Char(s, 1) \o collapse_ws(Drop(s, 1))

\* clean_text with the tags removed before the entities are decoded
clean_text_tags_first(t) ==
    IF t = "" THEN ""
    ELSE strip(collapse_ws(unescape(strip_tags(t))))

clean_text(t) ==
    IF t = "" THEN ""
    ELSE strip(collapse_ws(strip_tags(unescape(t))))

---------------------------------------------------------------------------
(* summarize                                                               *)

\* the literal appended on hard truncation.  In the source file it is the
\* three characters U+00E2 U+20AC U+00A6; they are spelled here with three
\* ASCII characters that are neither whitespace nor a period
ELLIPSIS == "^~|"

\* int(limit * 0.6) for limit >= 0
SentenceFloor(limit) == (limit * 6) \div 10

\* summarize with the sentence test written >= instead of >
summarize_inclusive(text, limit) ==
    LET t           == clean_text(text)
        cut         == Take(t, limit)
        last_period == rfind(cut, ".")
    IN  IF Len(t) <= limit THEN t
        ELSE IF last_period >= SentenceFloor(limit) THEN Take(cut, last_period + 1)
        ELSE rstrip(cut) \o ELLIPSIS

summarize(text, limit) ==
    LET t           == clean_text(text)
        cut         == Take(t, limit)
        last_period == rfind(cut, ".")
    IN  IF Len(t) <= limit THEN t
        ELSE IF last_period > SentenceFloor(limit) THEN Take(cut, last_period + 1)
        ELSE rstrip(cut) \o ELLIPSIS

---------------------------------------------------------------------------
(* pick_topic                                                              *)

\* the emoji of TOPIC_TAGS are decoration; each is spelled by its name
TOPIC_TAGS == <<
    [emoji |-> "briefcase", label |-> "Business/Economy", keywords |->
        <<"economy", "economic", "gdp", "inflation", "interest rate",
          "bank of canada", "finance", "markets", "market", "stocks", "tsx",
          "investment", "business", "jobs", "unemployment">>],
    [emoji |-> "ballot box", label |-> "Politics", keywords |->
        <<"politics", "parliament", "pm", "prime minister", "minister",
          "cabinet", "policy", "legislation", "election", "ottawa", "federal",
          "provincial government", "ndp", "liberal", "conservative">>],
    [emoji |-> "high voltage", label |-> "Energy", keywords |->
        <<"energy", "oil", "gas", "lng", "pipeline", "trans mountain", "tmx",
          "hydro", "electricity", "renewable", "wind", "solar", "utility",
          "mining">>],
    [emoji |-> "evergreen tree", label |-> "BC Provincial", keywords |->
        <<"british columbia", "b.c.", "bc", "vancouver", "victoria", "surrey",
          "burnaby", "kelowna", "translink", "bc hydro", "province",
          "provincial">>] >>

\* the source hints that mark a feed as a BC feed
BC_SOURCE_TAGS ==
    <<"british columbia", "bc", "vancouver sun", "vancouversun",
      "global news bc", "cbc british columbia">>

\* any(x in hay for x in needles)
AnyIn(needles, hay) == \E i \in 1..Len(needles) : Contains(hay, needles[i])

\* the for loop over TOPIC_TAGS from entry i on, and the default after it
RECURSIVE KeywordScan(_, _)
KeywordScan(base, i) ==
    IF i > Len(TOPIC_TAGS)
    THEN [emoji |-> "briefcase", topic |-> "Business/Economy"]
    ELSE IF AnyIn(TOPIC_TAGS[i].keywords, base)
    THEN [emoji |-> TOPIC_TAGS[i].emoji, topic |-> TOPIC_TAGS[i].label]
    ELSE KeywordScan(base, i + 1)

\* pick_topic with the keyword scan first and the source test after it
pick_topic_scan_first(title, summary, source_hint) ==
    LET base == lower(title \o " " \o summary \o " " \o source_hint)
        hit  == \E i \in 1..Len(TOPIC_TAGS) : AnyIn(TOPIC_TAGS[i].keywords, base)
    IN  IF hit THEN KeywordScan(base, 1)
        ELSE IF AnyIn(BC_SOURCE_TAGS, lower(source_hint))
        THEN [emoji |-> "evergreen tree", topic |-> "BC Provincial"]
        ELSE KeywordScan(base, 1)

pick_topic(title, summary, source_hint) ==
    LET base == lower(title \o " " \o summary \o " " \o source_hint)
    IN  IF AnyIn(BC_SOURCE_TAGS, lower(source_hint))
        THEN [emoji |-> "evergreen tree", topic |-> "BC Provincial"]
        ELSE KeywordScan(base, 1)

---------------------------------------------------------------------------
(* The helpers under study, one call at a time                             *)

CleanTokens == {"&", "amp;", "lt", "gt", ";", "<", ">", "b", " "}

SummaryTokens == {"a", ".", " <b>"}

IdleCycle ==
    /\ pc = "idle" /\ feed_i = 0 /\ source_title = "" /\ n_entry = 0
    /\ all_items = <<>> /\ returned = <<>>
    /\ outcome = <<>> /\ fetched = <<>> /\ nfetched = 0

IdleUI ==
    /\ ui_pc = "idle" /\ stack = <<>> /\ events = <<>> /\ shown = <<>>
    /\ ncycles = 0

IdleHelper == arg = [fn |-> "none"] /\ out = <<>>

InitClean ==
    /\ arg \in {[fn |-> "clean_text", t |-> x] : x \in Concats(CleanTokens, MaxTokens)}
    /\ out = <<>>
    /\ IdleCycle /\ IdleUI

\* y = clean_text(x)
CallClean ==
    /\ arg.fn = "clean_text" /\ out = <<>>
    /\ out' = <<clean_text(arg.t)>>
    /\ UNCHANGED <<arg, cycleVars, uiVars>>

\* clean_text(y), the function applied to its own result
CallCleanAgain ==
    /\ arg.fn = "clean_text" /\ Len(out) = 1
    /\ out' = Append(out, clean_text(out[1]))
    /\ UNCHANGED <<arg, cycleVars, uiVars>>

NextClean == CallClean \/ CallCleanAgain

SpecClean == InitClean /\ [][NextClean]_vars

InitSummarize ==
    /\ arg \in {[fn |-> "summarize", text |-> x, limit |-> l] :
                    x \in Concats(SummaryTokens, MaxLen), l \in 0..MaxLimit}
    /\ out = <<>>
    /\ IdleCycle /\ IdleUI

CallSummarize ==
    /\ arg.fn = "summarize" /\ out = <<>>
    /\ out' = <<summarize(arg.text, arg.limit)>>
    /\ UNCHANGED <<arg, cycleVars, uiVars>>

NextSummarize == CallSummarize

SpecSummarize == InitSummarize /\ [][NextSummarize]_vars

TopicTitles ==
    {"Bank of Canada holds interest rate", "Ottawa tables new legislation",
     "Pipeline expansion approved", "Kelowna wildfire evacuations",
     "Local bakery wins award"}

TopicSummaries ==
    {"", "The economy added jobs.", "Hydro rates rise in Victoria"}

TopicSources ==
    {"Vancouver Sun", "Global News BC", "CBC | Business News",
     "Financial Post", "Global News", "https://globalnews.ca/bc/feed/",
     "https://financialpost.com/category/news/energy/feed/"}

InitTopic ==
    /\ arg \in {[fn |-> "pick_topic", title |-> t, summary |-> s, source_hint |-> h] :
                    t \in TopicTitles, s \in TopicSummaries, h \in TopicSources}
    /\ out = <<>>
    /\ IdleCycle /\ IdleUI

CallPickTopic ==
    /\ arg.fn = "pick_topic" /\ out = <<>>
    /\ out' = <<pick_topic(arg.title, arg.summary, arg.source_hint)>>
    /\ UNCHANGED <<arg, cycleVars, uiVars>>

NextTopic == CallPickTopic

SpecTopic == InitTopic /\ [][NextTopic]_vars

---------------------------------------------------------------------------
(* entry_time, dedupe and the end of collect_news                          *)

\* a missing attribute, or one that is None
None == [kind |-> "None"]

\* a struct_time, named by the epoch second time.mktime maps it to
StructTime(epoch) == [kind |-> "struct_time", epoch |-> epoch]

\* a struct_time that time.mktime rejects (OverflowError, ValueError)
BadTime == [kind |-> "struct_time out of range"]

\* entry_time: published_parsed, else updated_parsed, else 0
entry_time(e) ==
    LET tt == IF e.published_parsed # None THEN e.published_parsed
              ELSE e.updated_parsed
    IN  IF tt = None \/ tt = BadTime THEN 0 ELSE tt.epoch

\* the key of dedupe, compared exactly: no strip(), no lower()
dedupe_key_exact(it) == <<it.title, it.link>>

\* the key of dedupe
dedupe_key(it) == <<lower(strip(it.title)), lower(strip(it.link))>>

\* dedupe keeping the last item of each key instead of the first
RECURSIVE dedupe_keep_last(_)
dedupe_keep_last(items) ==
    IF items = <<>> THEN <<>>
    ELSE IF \E j \in 2..Len(items) : dedupe_key(items[j]) = dedupe_key(items[1])
    THEN dedupe_keep_last(Tail(items))
    ELSE <<items[1]>> \o dedupe_keep_last(Tail(items))

\* the loop of dedupe from item i on, with the keys seen and the list uniq
RECURSIVE dedupe_from(_, _, _, _)
dedupe_from(items, i, seen, uniq) ==
    IF i > Len(items) THEN uniq
    ELSE IF dedupe_key(items[i]) \in seen
    THEN dedupe_from(items, i + 1, seen, uniq)
    ELSE dedupe_from(items, i + 1, seen \cup {dedupe_key(items[i])},
                     Append(uniq, items[i]))

dedupe(items) == dedupe_from(items, 1, {}, <<>>)

\* the number of leading items of a list sorted newest first that stay in
\* front of an item of time t: those at least as new
RECURSIVE AtLeastAsNew(_, _)
AtLeastAsNew(items, t) ==
    IF items = <<>> \/ items[1].time < t THEN 0
    ELSE 1 + AtLeastAsNew(Tail(items), t)

\* the sorted list `rest` with item `it` placed after its first k items
InsertAfter(rest, k, it) ==
    SubSeq(rest, 1, k) \o <<it>> \o SubSeq(rest, k + 1, Len(rest))

\* a sort newest first that puts an item in front of those of equal time
RECURSIVE sorted_newest_first_unstable(_)
sorted_newest_first_unstable(items) ==
    IF items = <<>> THEN <<>>
    ELSE LET rest == sorted_newest_first_unstable(SubSeq(items, 1, Len(items) - 1))
             it   == items[Len(items)]
         IN  InsertAfter(rest, AtLeastAsNew(rest, it.time + 1), it)

\* sorted(items, key=lambda x: x["time"], reverse=True): a stable sort,
\* items of equal time keep their order
RECURSIVE sorted_newest_first(_)
sorted_newest_first(items) ==
    IF items = <<>> THEN <<>>
    ELSE LET rest == sorted_newest_first(SubSeq(items, 1, Len(items) - 1))
             it   == items[Len(items)]
         IN  InsertAfter(rest, AtLeastAsNew(rest, it.time), it)

IsThemed(it) ==
    it.topic \in {"Business/Economy", "Politics", "Energy", "BC Provincial"}

\* lines 154-155: the themed items of the deduplicated list, cut to MAX_ITEMS
top_items(uniq) ==
    LET themed == SelectSeq(uniq, IsThemed)
    IN  SubSeq(themed, 1, IF Len(themed) < MAX_ITEMS THEN Len(themed) ELSE MAX_ITEMS)

---------------------------------------------------------------------------
(* collect_news                                                            *)

\* three of the eleven urls of FEEDS
FEEDS ==
    <<"https://www.cbc.ca/cmlink/rss-business",
      "https://globalnews.ca/politics/feed/",
      "https://financialpost.com/category/news/energy/feed/">>

\* fp.feed without a "title"
NoTitle == "(no title)"

\* what fp.feed offers as the title of each url of FEEDS
FEED_TITLES == <<NoTitle, "Global News", "Financial Post">>

\* the stories the feeds carry: the second is the first in another case and
\* with markup and blanks around it, the last has no link
Stories ==
    {[title |-> "Rates rise", link |-> "http://x/1",
      summary |-> "<p>Bank of Canada</p>", description |-> ""],
     [title |-> " <b>rates</b>  rise", link |-> "HTTP://X/1 ",
      summary |-> "", description |-> "Rates."],
     [title |-> "Oil jumps", link |-> "http://x/2",
      summary |-> "", description |-> ""],
     [title |-> "Oil jumps", link |-> "",
      summary |-> "", description |-> ""]}

\* the (published_parsed, updated_parsed) pairs the entries carry
EntryTimes ==
    {<<None, None>>, <<StructTime(100), StructTime(50)>>,
     <<None, StructTime(100)>>, <<BadTime, StructTime(100)>>}

RawEntries ==
    {[title |-> s.title, link |-> s.link, summary |-> s.summary,
      description |-> s.description,
      published_parsed |-> tp[1], updated_parsed |-> tp[2]] :
        s \in Stories, tp \in EntryTimes}

InitCollect ==
    /\ pc = "fetch" /\ feed_i = 1 /\ source_title = "" /\ n_entry = 0
    /\ all_items = <<>> /\ returned = <<>>
    /\ outcome = <<>> /\ fetched = <<>> /\ nfetched = 0
    /\ IdleHelper /\ IdleUI

\* the try block of FEEDS[feed_i] ends with `how`; the for loop moves on
NextFeed(how) ==
    /\ outcome' = Append(outcome, how)
    /\ feed_i' = feed_i + 1
    /\ pc' = "fetch"
    /\ source_title' = ""
    /\ n_entry' = 0

\* requests.get raises requests.exceptions.Timeout (line 145)
FetchTimeout ==
    /\ pc = "fetch" /\ feed_i <= Len(FEEDS)
    /\ NextFeed("raised")
    /\ fetched' = all_items
    /\ UNCHANGED <<all_items, returned, nfetched, helperVars, uiVars>>

\* requests.get raises another exception (a network error), or
\* feedparser.parse or the read of fp.feed does (line 148)
FetchError ==
    /\ pc = "fetch" /\ feed_i <= Len(FEEDS)
    /\ NextFeed("raised")
    /\ fetched' = all_items
    /\ UNCHANGED <<all_items, returned, nfetched, helperVars, uiVars>>

\* status_code != 200 or a blank body (lines 121-122)
FetchSkipped ==
    /\ pc = "fetch" /\ feed_i <= Len(FEEDS)
    /\ \E status_code \in {200, 500}, blank \in BOOLEAN :
          /\ status_code # 200 \/ blank
          /\ NextFeed("skipped")
    /\ fetched' = all_items
    /\ UNCHANGED <<all_items, returned, nfetched, helperVars, uiVars>>

\* a 200 response with a body, parsed; source_title is read (lines 124-125)
FetchParsed ==
    /\ pc = "fetch" /\ feed_i <= Len(FEEDS)
    /\ source_title' = IF FEED_TITLES[feed_i] # NoTitle THEN FEED_TITLES[feed_i]
                       ELSE FEEDS[feed_i]
    /\ pc' = "entries"
    /\ n_entry' = 0
    /\ UNCHANGED <<feed_i, all_items, returned, outcome, fetched, nfetched,
                   helperVars, uiVars>>

\* the values source_title can take
SourceTitles == {FEED_TITLES[i] : i \in 1..Len(FEEDS)} \cup {FEEDS[i] : i \in 1..Len(FEEDS)}

\* the dict lines 128-143 build from entry e of a feed titled src
ItemFields(e, src) ==
    LET title   == clean_text(e.title)
        summary == summarize(IF e.summary # "" THEN e.summary ELSE e.description,
                             SUMMARY_CHARS)
        picked  == pick_topic(title, summary, src)
    IN  [title |-> title, link |-> e.link, summary |-> summary,
         time |-> entry_time(e), source |-> src,
         emoji |-> picked.emoji, topic |-> picked.topic]

\* ItemFields, evaluated once for every entry and source title
ItemTable == [e \in RawEntries, src \in SourceTitles |-> ItemFields(e, src)]

\* the item built from entry e in the current iteration; feed and pos are
\* not fields of the program's dict: they record where the item was appended
NewsItem(e) ==
    LET f == ItemTable[e, source_title]
    IN  [title |-> f.title, link |-> f.link, summary |-> f.summary,
         time |-> f.time, source |-> f.source, emoji |-> f.emoji,
         topic |-> f.topic, feed |-> feed_i, pos |-> Len(all_items) + 1]

\* one iteration of the loop over fp.entries[:20] (lines 127-143)
ProcessEntry ==
    /\ pc = "entries" /\ n_entry < EntryCap /\ nfetched < MaxFetched
    /\ \E e \in RawEntries :
          LET it == NewsItem(e)
          IN  all_items' = IF it.title = "" \/ it.link = "" THEN all_items
                           ELSE Append(all_items, it)
    /\ n_entry' = n_entry + 1
    /\ nfetched' = nfetched + 1
    /\ UNCHANGED <<pc, feed_i, source_title, returned, outcome, fetched,
                   helperVars, uiVars>>

\* an iteration of the loop raises; `except Exception` ends the try block
\* (line 148) with the items of the earlier iterations in all_items
EntryRaises ==
    /\ pc = "entries" /\ n_entry < EntryCap /\ nfetched < MaxFetched
    /\ NextFeed("raised")
    /\ nfetched' = nfetched + 1
    /\ fetched' = all_items
    /\ UNCHANGED <<all_items, returned, helperVars, uiVars>>

\* fp.entries[:20] is exhausted
FeedDone ==
    /\ pc = "entries"
    /\ NextFeed("ok")
    /\ fetched' = all_items
    /\ UNCHANGED <<all_items, returned, nfetched, helperVars, uiVars>>

\* lines 153-155, after the last url
Finish ==
    /\ pc = "fetch" /\ feed_i > Len(FEEDS)
    /\ all_items' = dedupe(sorted_newest_first(all_items))
    /\ returned' = top_items(all_items')
    /\ pc' = "done"
    /\ UNCHANGED <<feed_i, source_title, n_entry, outcome, fetched, nfetched,
                   helperVars, uiVars>>

NextCollect ==
    \/ FetchTimeout
    \/ FetchError
    \/ FetchSkipped
    \/ FetchParsed
    \/ ProcessEntry
    \/ FeedDone
    \/ EntryRaises
    \/ Finish

Spec == InitCollect /\ [][NextCollect]_vars

---------------------------------------------------------------------------
(* main, build_ui and the Refresh and Close buttons                        *)
(*                                                                         *)
(* The program has one thread.  collect_news runs on it, called by main    *)
(* before the window exists and by refresh, the Refresh button's command,  *)
(* which Tk calls from root.mainloop().  Here a cycle is followed by what  *)
(* each url adds to its list: an item tagged with the cycle, or nothing.   *)

InitUI ==
    /\ ui_pc = "main"
    /\ stack = <<[cycle |-> 1, url |-> 1, all_items |-> <<>>]>>
    /\ events = <<>>
    /\ shown = <<>>
    /\ ncycles = 1
    /\ IdleHelper /\ IdleCycle

\* Tk calls a button's command while collect_news is still running
CanDispatchReentrant == ui_pc \in {"mainloop", "refresh"}

\* Tk calls a button's command from root.mainloop() only: main and refresh
\* never hand control back to Tk while they run
CanDispatch == ui_pc = "mainloop"

\* the user clicks Refresh Now or Close; the click waits in Tk's queue
Click ==
    /\ ui_pc \in {"mainloop", "refresh"}
    /\ Len(events) < MaxEvents
    /\ \E button \in {"refresh", "close"} : events' = Append(events, button)
    /\ UNCHANGED <<ui_pc, stack, shown, ncycles, helperVars, cycleVars>>

\* refresh, up to its call of collect_news (lines 306-309)
DispatchRefresh ==
    /\ CanDispatch
    /\ events # <<>> /\ Head(events) = "refresh"
    /\ ncycles < MaxCycles
    /\ events' = Tail(events)
    /\ shown' = <<>>
    /\ ncycles' = ncycles + 1
    /\ stack' = <<[cycle |-> ncycles + 1, url |-> 1, all_items |-> <<>>]>> \o stack
    /\ ui_pc' = "refresh"
    /\ UNCHANGED <<helperVars, cycleVars>>

\* root.destroy, the Close button's command
DispatchClose ==
    /\ CanDispatch
    /\ events # <<>> /\ Head(events) = "close"
    /\ events' = <<>>
    /\ shown' = <<>>
    /\ ui_pc' = "closed"
    /\ UNCHANGED <<stack, ncycles, helperVars, cycleVars>>

\* one url of the running cycle's for loop: its try block appends to the
\* cycle's own all_items, or ends without an item
CycleStep ==
    /\ stack # <<>> /\ stack[1].url <= Len(FEEDS)
    /\ \E appends \in BOOLEAN :
          stack' = <<[stack[1] EXCEPT
                        !.url = @ + 1,
                        !.all_items =
                            IF appends
                            THEN Append(@, [cycle |-> stack[1].cycle,
                                            feed |-> stack[1].url])
                            ELSE @]>> \o Tail(stack)
    /\ UNCHANGED <<ui_pc, events, shown, ncycles, helperVars, cycleVars>>

\* collect_news returns; its caller (build_ui from main, or refresh) packs
\* one block per item and control goes to root.mainloop()
CycleReturn ==
    /\ stack # <<>> /\ stack[1].url > Len(FEEDS)
    /\ shown' = SubSeq(stack[1].all_items, 1,
                       IF Len(stack[1].all_items) < MAX_ITEMS
                       THEN Len(stack[1].all_items) ELSE MAX_ITEMS)
    /\ stack' = Tail(stack)
    /\ ui_pc' = IF Len(stack) = 1 THEN "mainloop" ELSE "refresh"
    /\ UNCHANGED <<events, ncycles, helperVars, cycleVars>>

NextUI ==
    \/ Click
    \/ DispatchRefresh
    \/ DispatchClose
    \/ CycleStep
    \/ CycleReturn

SpecUI == InitUI /\ [][NextUI]_vars

---------------------------------------------------------------------------
(* Claims about clean_text and summarize                                   *)

\* C9, as stated: clean_text is idempotent on every input,
\* clean_text(clean_text(x)) = clean_text(x).
C9_CleanIdempotent ==
    (arg.fn = "clean_text" /\ Len(out) = 2) => out[2] = out[1]

\* C9, amended: clean_text(clean_text(x)) = clean_text(x) for every x whose
\* cleaned form holds no character reference left for html.unescape to
\* decode (html.unescape leaves clean_text(x) as it is).
C9_CleanIdempotentDecoded ==
    (arg.fn = "clean_text" /\ Len(out) = 2 /\ unescape(out[1]) = out[1])
        => out[2] = out[1]

\* an input with a reference and markup, cleaned to a string without them,
\* and cleaned again
C9_Witness ==
    /\ arg.fn = "clean_text" /\ Len(out) = 2
    /\ Contains(arg.t, "&lt") /\ Contains(arg.t, ">")
    /\ unescape(out[1]) = out[1]
    /\ out[1] # arg.t /\ out[1] # ""

\* the first `limit` characters of the cleaned text of the call under study
SummaryCut == Take(clean_text(arg.text), arg.limit)

\* the call under study cut its text: the cleaned text is longer than limit
SummaryTruncates ==
    /\ arg.fn = "summarize" /\ Len(out) = 1
    /\ Len(clean_text(arg.text)) > arg.limit

\* the result is the prefix cut through (and including) one of its periods
EndsAtPeriod(r) ==
    \E q \in 1..Len(SummaryCut) :
        Char(SummaryCut, q) = "." /\ r = Take(SummaryCut, q)

\* the result is a prefix of the cut followed by the ellipsis marker
HardTruncated(r) ==
    \E k \in 0..Len(SummaryCut) : r = Take(SummaryCut, k) \o ELLIPSIS

\* C7, as stated: when the cleaned text is longer than limit and the prefix
\* holds a period at a 0-based offset p >= 0.6 * limit, the result is the
\* prefix cut through a period; only when no period lies at such an offset
\* is the result the hard-truncated prefix with the ellipsis marker.
C7_PeriodAtOrBeyondSixty ==
    SummaryTruncates =>
        LET sentence == \E p \in 0..(Len(SummaryCut) - 1) :
                            Char(SummaryCut, p + 1) = "." /\ 10 * p >= 6 * arg.limit
        IN  /\ sentence => EndsAtPeriod(out[1])
            /\ HardTruncated(out[1]) => ~sentence

\* C7, amended: the same with the offset strictly beyond 60% of limit,
\* p > 0.6 * limit; with no such period the result is the hard-truncated
\* prefix with the ellipsis marker.
C7_PeriodBeyondSixty ==
    SummaryTruncates =>
        LET sentence == \E p \in 0..(Len(SummaryCut) - 1) :
                            Char(SummaryCut, p + 1) = "." /\ 10 * p > 6 * arg.limit
        IN  /\ sentence => EndsAtPeriod(out[1])
            /\ ~sentence => HardTruncated(out[1])

\* a text cut at a period that lies beyond 60% of limit but before the end
\* of the prefix
C7_Witness ==
    /\ SummaryTruncates
    /\ EndsAtPeriod(out[1])
    /\ Len(out[1]) < arg.limit
    /\ 10 * (Len(out[1]) - 1) > 6 * arg.limit

\* C8: summarize(text, limit) returns at most limit + 1 characters.
C8_SummaryLengthBound ==
    (arg.fn = "summarize" /\ Len(out) = 1) => Len(out[1]) <= arg.limit + 1

---------------------------------------------------------------------------
(* Claims about pick_topic                                                 *)

\* the lowercased source hint of the call under study holds a BC substring
SourceOverride ==
    \E tag \in {"british columbia", "bc", "vancouver sun", "vancouversun",
                "global news bc", "cbc british columbia"} :
        Contains(lower(arg.source_hint), tag)

\* the haystack of the call under study holds a keyword of topic i
TopicHit(i) ==
    AnyIn(TOPIC_TAGS[i].keywords,
          lower(arg.title \o " " \o arg.summary \o " " \o arg.source_hint))

\* C10: when the lowercased source hint holds a BC-indicating substring,
\* pick_topic returns BC Provincial whatever the title and summary hold;
\* otherwise it returns the first topic, in the order Business/Economy,
\* Politics, Energy, BC Provincial, one of whose keywords occurs in the
\* haystack, and Business/Economy when none does.
C10_SourceOverride ==
    (arg.fn = "pick_topic" /\ Len(out) = 1) =>
        /\ SourceOverride => out[1].topic = "BC Provincial"
        /\ ~SourceOverride =>
            /\ \A i \in 1..4 :
                  (TopicHit(i) /\ \A j \in 1..(i - 1) : ~TopicHit(j))
                      => out[1].topic = TOPIC_TAGS[i].label
            /\ (\A i \in 1..4 : ~TopicHit(i)) => out[1].topic = "Business/Economy"

\* a Vancouver Sun story whose title holds Business/Economy keywords,
\* classified BC Provincial
C10_Witness ==
    /\ arg.fn = "pick_topic" /\ Len(out) = 1
    /\ Contains(arg.source_hint, "Vancouver Sun")
    /\ TopicHit(1)
    /\ out[1].topic = "BC Provincial"

---------------------------------------------------------------------------
(* Claims about collect_news                                               *)

\* the dedup key of the spec: title and link, trimmed and lowercased
StoryKey(it) == <<lower(strip(it.title)), lower(strip(it.link))>>

\* an item without the two fields that record where it was appended
Plain(it) ==
    [title |-> it.title, link |-> it.link, summary |-> it.summary,
     time |-> it.time, source |-> it.source, emoji |-> it.emoji,
     topic |-> it.topic]

PlainSeq(items) == [i \in 1..Len(items) |-> Plain(items[i])]

\* every key fetched has a survivor, and every survivor was fetched
SurvivorsAreFetched ==
    /\ \A j \in 1..Len(fetched) : \E u \in 1..Len(all_items) :
          StoryKey(all_items[u]) = StoryKey(fetched[j])
    /\ \A u \in 1..Len(all_items) :
          /\ all_items[u].pos \in 1..Len(fetched)
          /\ fetched[all_items[u].pos] = all_items[u]

C2_NewestFirstStable ==
    pc = "done" =>
        \A i, j \in 1..Len(returned) :
            i < j => \/ returned[i].time > returned[j].time
                     \/ /\ returned[i].time = returned[j].time
                        /\ returned[i].pos < returned[j].pos

\* two stories without a timestamp returned, from different feeds
C2_Witness ==
    /\ pc = "done"
    /\ Len(returned) = 2
    /\ returned[1].time = 0 /\ returned[2].time = 0
    /\ returned[1].feed < returned[2].feed
    /\ Len(fetched) = MaxFetched

\* C3: no two returned items have the same dedup key.
C3_NoSharedKey ==
    pc = "done" =>
        \A i, j \in 1..Len(returned) :
            i # j => StoryKey(returned[i]) # StoryKey(returned[j])

\* a story fetched from two feeds in two spellings, and another story
C3_Witness ==
    /\ pc = "done"
    /\ Len(returned) = 2
    /\ \E i, j \in 1..Len(fetched) :
          /\ fetched[i].feed # fetched[j].feed
          /\ StoryKey(fetched[i]) = StoryKey(fetched[j])
          /\ fetched[i].title # fetched[j].title
          /\ fetched[i].link # fetched[j].link

\* the feed whose items these are ended its try block normally
FromHealthyFeed(it) == outcome[it.feed] = "ok"

\* C4: when feeds fail, the merged list holds exactly what the healthy
\* feeds contribute, and the cycle returns what a run over the healthy
\* feeds alone returns.
C4_FailureIsolation ==
    pc = "done" =>
        LET healthy == SelectSeq(fetched, FromHealthyFeed)
        IN  /\ PlainSeq(fetched) = PlainSeq(healthy)
            /\ PlainSeq(returned) =
                   PlainSeq(top_items(dedupe(sorted_newest_first(healthy))))

\* C5: a feed whose try block ended in an exception or in the status /
\* empty-body skip has no item in all_items.
C5_FailedFeedAddsNothing ==
    \A i \in 1..Len(outcome) :
        outcome[i] # "ok" =>
            \A j \in 1..Len(all_items) : all_items[j].feed # i

---------------------------------------------------------------------------
(* Claims about refresh                                                    *)

\* C6: two cycles never interleave: at most one collect_news call is in
\* flight at any time, the list it builds holds items of that cycle only,
\* and every list packed in the window holds items of a single cycle.
C6_SingleFlight ==
    /\ Len(stack) <= 1
    /\ \A f \in 1..Len(stack) : \A i \in 1..Len(stack[f].all_items) :
          stack[f].all_items[i].cycle = stack[f].cycle
    /\ \A i, j \in 1..Len(shown) : shown[i].cycle = shown[j].cycle

\* Refresh clicked while the cycle of an earlier refresh is in flight
C6_Witness ==
    /\ ui_pc = "refresh"
    /\ Len(stack) = 1 /\ stack[1].all_items # <<>>
    /\ events # <<>> /\ Head(events) = "refresh"

=============================================================================
